---- MODULE Spec2Model ----
(***************************************************************************)
(* A model of the component base class Block (src/src/utils/Block.ts) and  *)
(* of its consumer Button (src/src/components/button/button.ts).           *)
(*                                                                         *)
(* Everything in Block runs synchronously on one call stack: a public call *)
(* (new, setProps, a write or a delete through the props proxy,            *)
(* dispatchComponentDidMount) pushes the work it has to do on `stack`, and *)
(* the handlers it reaches through the event bus run one after the other   *)
(* until the stack is empty again, which is when the call returns.  A      *)
(* throw empties the stack and leaves its name in `err`.                   *)
(***************************************************************************)
EXTENDS Integers, Sequences, FiniteSets, TLC

VARIABLES
  props,      \* c -> the property store behind this.props (key -> value)
  children,   \* c -> this.children, as <<key, value>> pairs in insertion order
  element,    \* c -> this._element: a node of dom, or Null
  eventBus,   \* c -> the bus of the instance: event name -> handlers in order
  cls,        \* c -> the subclass the instance was built from
  dom,        \* live DOM nodes: node -> [kids, on, classList]
  stack,      \* the work left on the call stack, innermost first
  trace,      \* what the current (or last) public call did, in order
  call,       \* the current (or last) public call
  pre,        \* the target's _element and store, and the DOM, when that call started
  err,        \* "none", or the error the call ended with
  lost        \* the instances whose constructor threw: nobody holds them

vars == <<props, children, element, eventBus, cls, dom, stack, trace, call, pre, err, lost>>

----------------------------------------------------------------------------
(* Bounds of the model. *)

\* the largest number of keys of one setProps(partial) argument
MaxKeys == 2
\* the largest number of Block instances of a composition (SpecTree)
MaxBlocks == 4
\* the nested render passes the call stack has room for
MaxDepth == 3

----------------------------------------------------------------------------
(* Values.  JavaScript values are tagged records.                          *)

Str(s) == [t |-> "str", s |-> s]
Ev(m) == [t |-> "events", m |-> m]
Blk(id) == [t |-> "block", id |-> id]
Arr(items) == [t |-> "array", items |-> items]

\* a DOM element: the g-th element object that the renders of instance
\* `by` made; null, for _element and getContent(), is the object of nobody
Element(c, g) == [by |-> c, g |-> g]
Null == Element(0, 0)
\* undefined, for the _id of a value that is no Block
Undefined == 0

\* value instanceof Block
IsBlock(v) == v.t = "block"
\* value instanceof Array, Array.isArray(value)
IsArray(v) == v.t = "array"
\* !value
Falsy(v) == v = Str("")

EmptyObj == <<>>

Range(s) == {s[i] : i \in 1..Len(s)}

\* Block.EVENTS
INIT == "init"
FLOW_CDM == "flow:component-did-mount"
FLOW_CDU == "flow:component-did-update"
FLOW_RENDER == "flow:render"

\* the instances constructed so far; _id is the construction number
Ids == DOMAIN props

\* the instances a caller holds
Held == Ids \ lost

\* nanoid(6): an id no other instance has
NewId == Cardinality(Ids) + 1

----------------------------------------------------------------------------
(* The constructor's partition of its argument.                            *)

\* the forEach callback of _getChildrenAndProps: one entry of the bag
RouteEntry(acc, key, value) ==
  IF IsArray(value)
    THEN IF \E i \in 1..Len(value.items) : IsBlock(value.items[i])
           THEN [acc EXCEPT !.children = Append(@, <<key, value>>)]
           ELSE acc
    ELSE IF IsBlock(value)
      THEN [acc EXCEPT !.children = Append(@, <<key, value>>)]
      ELSE [acc EXCEPT !.props = (key :> value) @@ @]

RECURSIVE RouteFrom(_, _, _)
RouteFrom(acc, bag, i) ==
  IF i > Len(bag) THEN acc
  ELSE RouteFrom(RouteEntry(acc, bag[i][1], bag[i][2]), bag, i + 1)

\* bag: the argument's entries, <<key, value>> pairs in Object.entries order
_getChildrenAndProps(bag) ==
  RouteFrom([props |-> EmptyObj, children |-> <<>>], bag, 1)

----------------------------------------------------------------------------
(* Subclasses.  A subclass fixes the hooks: how many root elements the     *)
(* markup of its template has (0: render is not overridden and returns an  *)
(* empty DocumentFragment), which keys of the context the template writes  *)
(* into its first root, and whether componentDidUpdate is overridden.      *)

Class(name, roots, cdu, slots) ==
  [name |-> name, roots |-> roots, cdu |-> cdu, slots |-> slots]

\* src/components/button: render() compiles button.pug, one <button> root
Button == Class("Button", 1, "default", <<"label">>)
\* a Button whose componentDidUpdate compares the two snapshots by value
Memo == Class("Memo", 1, "byValue", <<"label">>)
\* a subclass that keeps Block.render
Plain == Class("Plain", 0, "default", <<>>)
\* a subclass whose template has two top-level elements
Pair == Class("Pair", 2, "default", <<"label">>)
\* a parent whose template writes its single child, then its sequence
List == Class("List", 1, "default", <<"btn", "item">>)
\* a parent whose template leaves the single child out
Sparse == Class("Sparse", 1, "default", <<"item">>)
\* a Button whose render hook first writes props.label = 'Saved', when the
\* label is 'Save' (Fixer) or whatever it is (Loop)
Fixer == [writes |-> "fix"] @@ Class("Fixer", 1, "default", <<"label">>)
Loop == [writes |-> "always"] @@ Class("Loop", 1, "default", <<"label">>)
\* when the render hook of a class writes a prop
RenderWrites(cl) == IF "writes" \in DOMAIN cl THEN cl.writes ELSE "never"

----------------------------------------------------------------------------
(* The DOM.  An element is a node number; its content is a sequence of     *)
(* items: text, a placeholder <div data-id=...>, or another element.       *)

Text(v) == [t |-> "text", v |-> v]
Stub(id) == [t |-> "stub", id |-> id]
Node(n) == [t |-> "node", n |-> n]

\* a new element object made by a render of c: one that is neither c's
\* current element, nor the one the caller saw before the call, nor one
\* that an earlier render pass of this call made
FreshNode(c) ==
  LET seen == {element[c], pre.element}
                \cup {trace[i].new : i \in {j \in 1..Len(trace) :
                                               trace[j].e = "render" /\ trace[j].ok}}
      used == {n.g : n \in {m \in seen : m.by = c}}
  IN Element(c, CHOOSE g \in 1..(Cardinality(used) + 1) :
                  g \notin used /\ \A m \in 1..(g - 1) : m \in used)

\* the items of s without element n
Without(s, n) == SelectSeq(s, LAMBDA it : it # Node(n))

\* element n leaves the tree it is in (a node has one parent)
Detach(d, n) == [m \in DOMAIN d |-> [d[m] EXCEPT !.kids = Without(@, n)]]

\* old.replaceWith(item) in whatever tree holds old
ReplaceIn(d, old, item) ==
  [m \in DOMAIN d |->
     [d[m] EXCEPT !.kids = [i \in 1..Len(@) |-> IF @[i] = Node(old) THEN item ELSE @[i]]]]

\* what replaceWith(x) inserts: the element, or the text "null" for null
AsItem(n) == IF n = Null THEN Text(Str("null")) ELSE Node(n)

----------------------------------------------------------------------------
(* compile: placeholders in, children's nodes out.                         *)

\* val._id
IdOf(val) == IF IsBlock(val) THEN val.id ELSE Undefined

\* a first loop that assigns each placeholder instead of appending it
AddStub_Overwrite(ctx, name, val) == (name :> <<Stub(IdOf(val))>>) @@ ctx

\* the inner forEach of the first loop: one element of a sequence child
AddStub(ctx, name, val) ==
  IF name \notin DOMAIN ctx \/ ctx[name] = <<>> \/ ctx[name] = <<Text(Str(""))>>
    THEN (name :> <<Stub(IdOf(val))>>) @@ ctx
    ELSE (name :> Append(ctx[name], Stub(IdOf(val)))) @@ ctx

RECURSIVE AddStubsFrom(_, _, _, _)
AddStubsFrom(ctx, name, items, i) ==
  IF i > Len(items) THEN ctx
  ELSE AddStubsFrom(AddStub(ctx, name, items[i]), name, items, i + 1)

\* the first loop of compile: contextAndStubs from the context
RECURSIVE StubsFrom(_, _, _)
StubsFrom(ctx, kids, i) ==
  IF i > Len(kids) THEN ctx
  ELSE LET name == kids[i][1]
           component == kids[i][2]
       IN StubsFrom(
            IF IsArray(component)
              THEN AddStubsFrom(ctx, name, component.items, 1)
              ELSE (name :> <<Stub(IdOf(component))>>) @@ ctx,
            kids, i + 1)

\* { ...context }: what each key prints as
ContextOf(p) == [k \in DOMAIN p |-> <<Text(p[k])>>]

RECURSIVE Interpolate(_, _, _)
Interpolate(slots, ctx, i) ==
  IF i > Len(slots) THEN <<>>
  ELSE (IF slots[i] \in DOMAIN ctx THEN ctx[slots[i]] ELSE <<>>)
         \o Interpolate(slots, ctx, i + 1)

\* template(contextAndStubs), parsed by temp.innerHTML: the top-level
\* elements, each as its content; the slots go into the first one
Template(cl, ctx) ==
  [r \in 1..cl.roots |-> IF r = 1 THEN Interpolate(cl.slots, ctx, 1) ELSE <<>>]

\* the places of the placeholders with this data-id, <<root, index>>
StubPlaces(frag, id) ==
  UNION {{<<r, i>> : i \in {j \in 1..Len(frag[r]) : frag[r][j] = Stub(id)}} : r \in 1..Len(frag)}

\* temp.content.querySelector(`[data-id='${id}']`): the first in document order
QuerySelector(frag, id) ==
  LET S == StubPlaces(frag, id)
  IN CHOOSE p \in S : \A q \in S : p[1] < q[1] \/ (p[1] = q[1] /\ p[2] <= q[2])

\* stub.replaceWith(n) in the fragment; an element moves out of where it was
PutAt(frag, p, n) ==
  LET Here == [t |-> "here"]
      marked == [frag EXCEPT ![p[1]][p[2]] = Here]
      moved == [r \in 1..Len(marked) |-> IF n = Null THEN marked[r] ELSE Without(marked[r], n)]
  IN [r \in 1..Len(moved) |->
        [i \in 1..Len(moved[r]) |-> IF moved[r][i] = Here THEN AsItem(n) ELSE moved[r][i]]]

\* a second loop that fails on the first placeholder it does not find
Substitute_Strict(st, val) ==
  IF st.threw \/ StubPlaces(st.frag, IdOf(val)) = {} \/ ~IsBlock(val)
    THEN [st EXCEPT !.threw = TRUE]
  ELSE LET n == element[val.id]
       IN [frag |-> PutAt(st.frag, QuerySelector(st.frag, IdOf(val)), n),
           dom |-> IF n = Null THEN st.dom ELSE Detach(st.dom, n),
           threw |-> FALSE,
           done |-> st.done + 1]

\* one lookup and replacement of the second loop; st = [frag, dom, threw, done]
Substitute(st, val) ==
  IF st.threw \/ StubPlaces(st.frag, IdOf(val)) = {} THEN st
  ELSE IF ~IsBlock(val) THEN [st EXCEPT !.threw = TRUE]
  ELSE LET n == element[val.id]
       IN [frag |-> PutAt(st.frag, QuerySelector(st.frag, IdOf(val)), n),
           dom |-> IF n = Null THEN st.dom ELSE Detach(st.dom, n),
           threw |-> FALSE,
           done |-> st.done + 1]

RECURSIVE SubstituteFrom(_, _, _)
SubstituteFrom(st, items, i) ==
  IF i > Len(items) THEN st
  ELSE SubstituteFrom(Substitute(st, items[i]), items, i + 1)

\* the second loop of compile
RECURSIVE ReplaceFrom(_, _, _)
ReplaceFrom(st, kids, i) ==
  IF i > Len(kids) THEN st
  ELSE LET component == kids[i][2]
       IN ReplaceFrom(
            IF IsArray(component)
              THEN SubstituteFrom(st, component.items, 1)
              ELSE Substitute(st, component),
            kids, i + 1)

\* compile(template, context) of instance c: the fragment, the DOM after the
\* children's nodes moved into it, whether it threw, the replacements done
compile(c, context) ==
  LET contextAndStubs == StubsFrom(ContextOf(context), children[c], 1)
      html == Template(cls[c], contextAndStubs)
  IN ReplaceFrom([frag |-> html, dom |-> dom, threw |-> FALSE, done |-> 0],
                 children[c], 1)

\* the render hook: Block.render, or the subclass's compile of its template
render(c) ==
  IF cls[c].roots = 0
    THEN [frag |-> <<>>, dom |-> dom, threw |-> FALSE, done |-> 0]
    ELSE compile(c, props[c])

----------------------------------------------------------------------------
(* The event bus of an instance: event name -> handlers, in the order of   *)
(* registration.                                                           *)

\* eventBus.on(event, handler)
on(bus, event, handler) ==
  IF event \in DOMAIN bus
    THEN [bus EXCEPT ![event] = Append(@, handler)]
    ELSE (event :> <<handler>>) @@ bus

\* the handlers eventBus.emit(event) calls
Listeners(bus, event) == IF event \in DOMAIN bus THEN bus[event] ELSE <<>>

\* a registration that forgets the render handler
_registerEvents_NoRender(bus) ==
  on(on(on(bus, INIT, "_init"),
        FLOW_CDM, "_componentDidMount"),
     FLOW_CDU, "_componentDidUpdate")

_registerEvents(bus) ==
  on(on(on(on(bus, INIT, "_init"),
           FLOW_CDM, "_componentDidMount"),
        FLOW_CDU, "_componentDidUpdate"),
     FLOW_RENDER, "_render")

----------------------------------------------------------------------------
(* The call stack and the record of a call.                                *)

EmitItem(c, event, args) == [i |-> "emit", c |-> c, ev |-> event, args |-> args]
HandlerItem(c, h, args) == [i |-> "handler", c |-> c, h |-> h, args |-> args]
SetItem(c, k, v) == [i |-> "set", c |-> c, k |-> k, v |-> v]
\* a render pass waiting for the write of its render hook to return
ResumeItem(c) == [i |-> "resume", c |-> c]

Idle == stack = <<>>
Top == Head(stack)
At(kind) == stack # <<>> /\ Top.i = kind
InHandler(h) == At("handler") /\ Top.h = h

\* a public call starts: what the caller could see of c before it
Begin(op, c, given, arg) ==
  /\ call' = [op |-> op, c |-> c, given |-> given, arg |-> arg]
  /\ pre' = [element |-> IF c \in Ids THEN element[c] ELSE Null,
             props |-> IF c \in Ids THEN props[c] ELSE EmptyObj,
             dom |-> dom]

\* an error nobody catches unwinds the whole stack
Throw(c, name) ==
  /\ stack' = <<>>
  /\ err' = name
  /\ trace' = Append(trace, [e |-> "throw", c |-> c, name |-> name])
  /\ lost' = IF call.op = "new" THEN lost \cup {c} ELSE lost

----------------------------------------------------------------------------
(* The reactive props proxy.                                               *)

\* the two arguments of the updated event: a copy and the store itself
Snapshot(p) == [obj |-> "copy", val |-> p]
Target(p) == [obj |-> "store", val |-> p]

\* a set trap that copies the store after it wrote to it
ProxySet_CopiesLate ==
  /\ At("set")
  /\ LET c == Top.c
         target == (Top.k :> Top.v) @@ props[c]
         oldTarget == Snapshot(target)
     IN /\ props' = [props EXCEPT ![c] = target]
        /\ stack' = <<EmitItem(c, FLOW_CDU, <<oldTarget, Target(target)>>)>> \o Tail(stack)
        /\ trace' = Append(trace, [e |-> "set", c |-> c, k |-> Top.k, v |-> Top.v])
  /\ UNCHANGED <<children, element, eventBus, cls, dom, call, pre, err, lost>>

\* the set trap: oldTarget = {...target}; target[prop] = value; emit
ProxySet ==
  /\ At("set")
  /\ LET c == Top.c
         oldTarget == Snapshot(props[c])
         target == (Top.k :> Top.v) @@ props[c]
     IN /\ props' = [props EXCEPT ![c] = target]
        /\ stack' = <<EmitItem(c, FLOW_CDU, <<oldTarget, Target(target)>>)>> \o Tail(stack)
        /\ trace' = Append(trace, [e |-> "set", c |-> c, k |-> Top.k, v |-> Top.v])
  /\ UNCHANGED <<children, element, eventBus, cls, dom, call, pre, err, lost>>

\* a deleteProperty trap that lets the deletion through
DeleteProp_Deletes(c, k) ==
  /\ Idle /\ c \in Held
  /\ Begin("delete", c, TRUE, <<k>>)
  /\ stack' = <<>>
  /\ err' = "none"
  /\ trace' = <<>>
  /\ props' = [props EXCEPT ![c] = [x \in DOMAIN @ \ {k} |-> @[x]]]
  /\ UNCHANGED <<children, element, eventBus, cls, dom, lost>>

\* the deleteProperty trap
DeleteProp(c, k) ==
  /\ Idle /\ c \in Held
  /\ Begin("delete", c, TRUE, <<k>>)
  /\ stack' = <<>>
  /\ err' = "Error"
  /\ trace' = <<[e |-> "throw", c |-> c, name |-> "Error"]>>
  /\ UNCHANGED <<props, children, element, eventBus, cls, dom, lost>>

----------------------------------------------------------------------------
(* The lifecycle handlers.                                                 *)

\* eventBus.emit(event, ...args): every handler, in order; none is an error
Emit ==
  /\ At("emit")
  /\ LET c == Top.c
         hs == Listeners(eventBus[c], Top.ev)
     IN IF hs = <<>>
          THEN Throw(c, "UnknownEvent")
          ELSE /\ stack' = [j \in 1..Len(hs) |-> HandlerItem(c, hs[j], Top.args)] \o Tail(stack)
               /\ trace' = Append(trace, [e |-> "emit", c |-> c, ev |-> Top.ev, args |-> Top.args])
               /\ UNCHANGED <<err, lost>>
  /\ UNCHANGED <<props, children, element, eventBus, cls, dom, call, pre>>

\* an init handler that runs the hook and emits nothing
_init_NoRender ==
  /\ InHandler("_init")
  /\ stack' = Tail(stack)
  /\ trace' = Append(trace, [e |-> "hook", c |-> Top.c, h |-> "init"])
  /\ UNCHANGED <<props, children, element, eventBus, cls, dom, call, pre, err, lost>>

\* _createResources(); this.init(); emit(FLOW_RENDER)
_init ==
  /\ InHandler("_init")
  /\ stack' = <<EmitItem(Top.c, FLOW_RENDER, <<>>)>> \o Tail(stack)
  /\ trace' = Append(trace, [e |-> "hook", c |-> Top.c, h |-> "init"])
  /\ UNCHANGED <<props, children, element, eventBus, cls, dom, call, pre, err, lost>>

\* a mounted handler that runs the hook and emits nothing
_componentDidMount_NoRender ==
  /\ InHandler("_componentDidMount")
  /\ stack' = Tail(stack)
  /\ trace' = Append(trace, [e |-> "hook", c |-> Top.c, h |-> "componentDidMount"])
  /\ UNCHANGED <<props, children, element, eventBus, cls, dom, call, pre, err, lost>>

\* this.componentDidMount(); emit(FLOW_RENDER)
_componentDidMount ==
  /\ InHandler("_componentDidMount")
  /\ stack' = <<EmitItem(Top.c, FLOW_RENDER, <<>>)>> \o Tail(stack)
  /\ trace' = Append(trace, [e |-> "hook", c |-> Top.c, h |-> "componentDidMount"])
  /\ UNCHANGED <<props, children, element, eventBus, cls, dom, call, pre, err, lost>>

\* the comparison hook: oldProps !== newProps unless the subclass overrides it
componentDidUpdate(cl, oldProps, newProps) ==
  IF cl.cdu = "default"
    THEN oldProps.obj # newProps.obj
    ELSE oldProps.val # newProps.val

\* an updated handler that emits render whatever the hook answered
AfterUpdate_Always(c, response) == <<EmitItem(c, FLOW_RENDER, <<>>)>>

\* what _componentDidUpdate does with the hook's answer
AfterUpdate(c, response) ==
  IF response THEN <<EmitItem(c, FLOW_RENDER, <<>>)>> ELSE <<>>

_componentDidUpdate ==
  /\ InHandler("_componentDidUpdate")
  /\ LET c == Top.c
         response == componentDidUpdate(cls[c], Top.args[1], Top.args[2])
     IN /\ stack' = AfterUpdate(c, response) \o Tail(stack)
        /\ trace' = Append(trace, [e |-> "hook", c |-> c, h |-> "componentDidUpdate",
                                   res |-> response])
  /\ UNCHANGED <<props, children, element, eventBus, cls, dom, call, pre, err, lost>>

\* public dispatchComponentDidMount()
dispatchComponentDidMount(c) ==
  /\ Idle /\ c \in Held
  /\ Begin("dispatch", c, TRUE, <<>>)
  /\ err' = "none"
  /\ stack' = <<EmitItem(c, FLOW_CDM, <<>>)>>
  /\ trace' = <<>>
  /\ UNCHANGED <<props, children, element, eventBus, cls, dom, lost>>

----------------------------------------------------------------------------
(* Rendering.                                                              *)

\* fragment.firstElementChild
firstElementChild(c, frag) == IF Len(frag) = 0 THEN Null ELSE FreshNode(c)

\* const { events = {} } = this.props: the <<event name, handler>> pairs
EventsOf(p) == IF "events" \in DOMAIN p THEN p["events"].m ELSE {}

\* const { classes = '' } = this.props
ClassesOf(p) == IF "classes" \in DOMAIN p THEN p["classes"] ELSE Str("")

\* classes.split(' ')
Split(s) == IF s = "primary large" THEN {"primary", "large"} ELSE {s}

\* _removeEvents: the listeners left on the node after removing those of events
_removeEvents(attached, events) == attached \ events

\* an _addEvents that attaches nothing
_addEvents_None(attached, events) == attached

\* _addEvents: the listeners on the node after adding those of events
_addEvents(attached, events) == attached \cup events

\* _render of instance c, given what the render hook returned
Install(c, r) ==
  LET newElement == firstElementChild(c, r.frag)
      old == element[c]
      events == EventsOf(props[c])
      classes == ClassesOf(props[c])
      left == IF old # Null THEN _removeEvents(r.dom[old].on, events) ELSE {}
      d1 == IF old # Null
              THEN [m \in DOMAIN r.dom \ {old} |-> ReplaceIn(r.dom, old, AsItem(newElement))[m]]
              ELSE r.dom
      d2 == IF newElement # Null
              THEN (newElement :>
                      [kids |-> r.frag[1],
                       on |-> _addEvents({}, events),
                       classList |-> IF Falsy(classes) THEN {} ELSE Split(classes.s)]) @@ d1
              ELSE d1
  IN [element |-> newElement, dom |-> d2, old |-> old, left |-> left,
      threw |-> ~Falsy(classes) /\ newElement = Null]

\* the render hook of c writes a prop in the pass about to start
WritesNow(c) ==
  \/ RenderWrites(cls[c]) = "always"
  \/ /\ RenderWrites(cls[c]) = "fix"
     /\ "label" \in DOMAIN props[c] /\ props[c]["label"] = Str("Save")

\* the render passes begun and not finished
Depth == Cardinality({i \in DOMAIN stack : stack[i].i = "resume"})

\* _render from the call of compile in the render hook to its end
RenderPass(c) ==
  /\ LET r == render(c)
         n == Install(c, r)
     IN IF r.threw
          THEN /\ dom' = r.dom
               /\ element' = element
               /\ stack' = <<>>
               /\ err' = "TypeError"
               /\ trace' = trace \o <<[e |-> "render", c |-> c, ok |-> FALSE],
                                      [e |-> "throw", c |-> c, name |-> "TypeError"]>>
               /\ lost' = IF call.op = "new" THEN lost \cup {c} ELSE lost
          ELSE /\ element' = [element EXCEPT ![c] = n.element]
               /\ dom' = n.dom
               /\ LET entry == [e |-> "render", c |-> c, ok |-> TRUE, roots |-> Len(r.frag),
                                old |-> n.old, new |-> n.element, left |-> n.left,
                                from |-> props[c], done |-> r.done,
                                kids |-> IF Len(r.frag) = 0 THEN <<>> ELSE r.frag[1]]
                  IN IF n.threw
                       THEN /\ stack' = <<>>
                            /\ err' = "TypeError"
                            /\ trace' = trace \o <<entry, [e |-> "throw", c |-> c, name |-> "TypeError"]>>
                            /\ lost' = IF call.op = "new" THEN lost \cup {c} ELSE lost
                       ELSE /\ stack' = Tail(stack)
                            /\ trace' = Append(trace, entry)
                            /\ UNCHANGED <<err, lost>>
  /\ UNCHANGED <<props, children, eventBus, cls, call, pre>>

\* _render with a render hook that writes no prop
_render == InHandler("_render") /\ ~WritesNow(Top.c) /\ RenderPass(Top.c)

\* _render with a render hook that writes: the pass waits for the set trap
\* and all it starts; a call stack with no room left throws RangeError
_renderWrites ==
  /\ InHandler("_render") /\ WritesNow(Top.c)
  /\ LET c == Top.c
     IN IF Depth >= MaxDepth
          THEN Throw(c, "RangeError")
          ELSE /\ stack' = <<SetItem(c, "label", Str("Saved")), ResumeItem(c)>> \o Tail(stack)
               /\ trace' = Append(trace, [e |-> "begin", c |-> c])
               /\ UNCHANGED <<err, lost>>
  /\ UNCHANGED <<props, children, element, eventBus, cls, dom, call, pre>>

\* a pass that leaves the node the nested pass installed
_renderResume_Keeps ==
  /\ At("resume")
  /\ stack' = Tail(stack)
  /\ UNCHANGED <<props, children, element, eventBus, cls, dom, trace, call, pre, err, lost>>

\* the write of the render hook has returned: the hook compiles, _render
\* installs
_renderResume == At("resume") /\ RenderPass(Top.c)

----------------------------------------------------------------------------
(* Public calls.                                                           *)

\* new Subclass(propsWithChildren)
Construct(cl, bag) ==
  /\ Idle
  /\ LET c == NewId
         r == _getChildrenAndProps(bag)
     IN /\ Begin("new", c, TRUE, bag)
        /\ props' = (c :> r.props) @@ props
        /\ children' = (c :> r.children) @@ children
        /\ element' = (c :> Null) @@ element
        /\ cls' = (c :> cl) @@ cls
        /\ eventBus' = (c :> _registerEvents(EmptyObj)) @@ eventBus
        /\ stack' = <<EmitItem(c, INIT, <<>>)>>
        /\ trace' = <<[e |-> "partition", c |-> c], [e |-> "register", c |-> c]>>
  /\ err' = "none"
  /\ UNCHANGED <<dom, lost>>

\* Object.assign(this.props, nextProps), then emit(FLOW_RENDER)
SetPropsWork(c, nextProps) ==
  [j \in 1..Len(nextProps) |-> SetItem(c, nextProps[j][1], nextProps[j][2])]
    \o <<EmitItem(c, FLOW_RENDER, <<>>)>>

\* setProps(nextProps); given = FALSE is a call with nothing (undefined, null)
setProps(c, given, nextProps) ==
  /\ Idle /\ c \in Held
  /\ Begin("setProps", c, given, nextProps)
  /\ err' = "none"
  /\ stack' = IF given THEN SetPropsWork(c, nextProps) ELSE <<>>
  /\ trace' = <<>>
  /\ UNCHANGED <<props, children, element, eventBus, cls, dom, lost>>

\* this.props[k] = v
PropWrite(c, k, v) ==
  /\ Idle /\ c \in Held
  /\ Begin("set", c, TRUE, <<<<k, v>>>>)
  /\ err' = "none"
  /\ stack' = <<SetItem(c, k, v)>>
  /\ trace' = <<>>
  /\ UNCHANGED <<props, children, element, eventBus, cls, dom, lost>>

----------------------------------------------------------------------------
(* The inputs of the model.                                                *)

PropKeys == {"label", "events", "classes"}

ValuesOf(k) ==
  CASE k = "label" -> {Str("Save"), Str("Saved")}
    [] k = "events" -> {Ev({<<"click", "h1">>}), Ev({<<"click", "h2">>})}
    [] k = "classes" -> {Str("primary")}
    [] k = "item" -> {Arr(<<>>), Arr(<<Str("Save")>>)}

Entries(keys) == UNION {{<<k, v>> : v \in ValuesOf(k)} : k \in keys}

\* the objects of at most n entries over these keys, no key twice
Objects(keys, n) ==
  {o \in UNION {[1..m -> Entries(keys)] : m \in 0..n} :
     \A i, j \in 1..Len(o) : i # j => o[i][1] # o[j][1]}

\* one instance, no children
Classes == {Button, Memo, Plain, Pair}
Bags == Objects(PropKeys \cup {"item"}, MaxKeys)
Partials == Objects(PropKeys, MaxKeys)

----------------------------------------------------------------------------
(* The life of one instance: any subclass, any bag, any calls.             *)

Init ==
  /\ props = EmptyObj
  /\ children = EmptyObj
  /\ element = EmptyObj
  /\ eventBus = EmptyObj
  /\ cls = EmptyObj
  /\ dom = EmptyObj
  /\ stack = <<>>
  /\ trace = <<>>
  /\ call = [op |-> "none", c |-> 0, given |-> TRUE, arg |-> <<>>]
  /\ pre = [element |-> Null, props |-> EmptyObj, dom |-> EmptyObj]
  /\ err = "none"
  /\ lost = {}

New == \E cl \in Classes, bag \in Bags : Ids = {} /\ Construct(cl, bag)
SetProps == \E c \in Held, p \in Partials : setProps(c, TRUE, p)
SetNothing == \E c \in Held : setProps(c, FALSE, <<>>)
Write == \E c \in Held, kv \in Entries(PropKeys) : PropWrite(c, kv[1], kv[2])
Delete == \E c \in Held, k \in PropKeys : DeleteProp(c, k)
Mount == \E c \in Held : dispatchComponentDidMount(c)

Next ==
  \/ New \/ SetProps \/ SetNothing \/ Write \/ Delete \/ Mount
  \/ Emit \/ ProxySet \/ _init \/ _componentDidMount \/ _componentDidUpdate \/ _render

Spec == Init /\ [][Next]_vars

----------------------------------------------------------------------------
(* A composition of depth one: Buttons, then one parent built over them.   *)

\* the sequences of distinct elements of S, one element at least
RECURSIVE Arrangements(_)
Arrangements(S) ==
  IF S = {} THEN {<<>>}
  ELSE {<<>>} \cup UNION {{<<x>> \o a : a \in Arrangements(S \ {x})} : x \in S}

\* the bags of a parent over the instances held: a sequence of distinct
\* Blocks under "item", a single Block that is none of them under "btn",
\* or both, in either order
TreeBags ==
  LET items == {<<"item", Arr([i \in 1..Len(a) |-> Blk(a[i])])>> :
                  a \in Arrangements(Held) \ {<<>>}}
      single == {<<"btn", Blk(b)>> : b \in Held}
      Uses(e) == IF IsArray(e[2]) THEN {e[2].items[i].id : i \in 1..Len(e[2].items)}
                 ELSE {e[2].id}
  IN {<<e>> : e \in items \cup single}
       \cup {<<e, f>> : <<e, f>> \in {p \in (items \X single) \cup (single \X items) :
                                         Uses(p[1]) \cap Uses(p[2]) = {}}}

\* no parent has been built yet
OnlyLeaves == \A c \in Ids : children[c] = <<>>

NewLeaf ==
  /\ NewId <= MaxBlocks /\ OnlyLeaves
  /\ Construct(Button, <<<<"label", Str("Save")>>>>)

NewParent ==
  /\ NewId <= MaxBlocks /\ OnlyLeaves
  /\ \E cl \in {List, Sparse}, bag \in TreeBags : Construct(cl, bag)

NextTree ==
  \/ NewLeaf \/ NewParent \/ Mount
  \/ Emit \/ _init \/ _componentDidMount \/ _render

SpecTree == Init /\ [][NextTree]_vars

----------------------------------------------------------------------------
(* A Button and one owner built over it, then calls that hand Blocks to    *)
(* setProps.                                                               *)

\* the bags of an owner over the instances held: one child, single, in a
\* sequence of its own, or in a sequence next to a string
OwnerBags ==
  UNION {{<<<<"btn", Blk(b)>>>>,
          <<<<"item", Arr(<<Blk(b)>>)>>>>,
          <<<<"item", Arr(<<Blk(b), Str("Save")>>)>>>>,
          <<<<"item", Arr(<<Str("Save"), Blk(b)>>)>>>>} : b \in Held}

NewChild == Ids = {} /\ Construct(Button, <<<<"label", Str("Save")>>>>)

NewOwner ==
  /\ Ids # {} /\ OnlyLeaves /\ NewId <= MaxBlocks
  /\ \E bag \in OwnerBags : Construct(List, bag)

Adopt ==
  \E c \in Held, k \in {"btn", "item"}, d \in Held :
    setProps(c, TRUE, <<<<k, Blk(d)>>>>)

NextAdopt ==
  \/ NewChild \/ NewOwner \/ Adopt
  \/ Emit \/ ProxySet \/ _init \/ _componentDidUpdate \/ _render

SpecAdopt == Init /\ [][NextAdopt]_vars

----------------------------------------------------------------------------
(* One instance whose render hook writes a prop.                           *)

WriterBags == Objects({"label", "events"}, MaxKeys)

NewWriter == \E cl \in {Fixer, Loop}, bag \in WriterBags : Ids = {} /\ Construct(cl, bag)

Relabel == \E c \in Held, v \in ValuesOf("label") : PropWrite(c, "label", v)

NextReenter ==
  \/ NewWriter \/ Relabel \/ SetProps \/ Mount
  \/ Emit \/ ProxySet \/ _init \/ _componentDidMount \/ _componentDidUpdate
  \/ _render \/ _renderWrites \/ _renderResume

SpecReenter == Init /\ [][NextReenter]_vars

----------------------------------------------------------------------------
(* What a call left in the trace.                                          *)

IsPrefix(s, t) == Len(s) <= Len(t) /\ \A i \in 1..Len(s) : s[i] = t[i]

\* the trace as names: the event of an emit, the hook, or the kind of entry
TraceShape ==
  [i \in 1..Len(trace) |->
     IF trace[i].e = "emit" THEN trace[i].ev
     ELSE IF trace[i].e = "hook" THEN trace[i].h
     ELSE trace[i].e]

Renders == {i \in 1..Len(trace) : trace[i].e = "render"}
Emits(event) == {i \in 1..Len(trace) : trace[i].e = "emit" /\ trace[i].ev = event}
Hooks(h) == {i \in 1..Len(trace) : trace[i].e = "hook" /\ trace[i].h = h}
Last(S) == CHOOSE i \in S : \A j \in S : j <= i

\* the call has returned to its caller without an error
Returned(op) == Idle /\ call.op = op /\ err = "none"

ChildKeys(c) == {children[c][i][1] : i \in 1..Len(children[c])}

----------------------------------------------------------------------------
(* C1: every key of the construction bag is routed to exactly one of       *)
(* props and children: none is dropped, none is in both.  The code drops   *)
(* an array that holds no Block.                                           *)
C1_EveryKeyRouted ==
  call.op = "new" =>
    \A i \in 1..Len(call.arg) :
      LET k == call.arg[i][1]
      IN (k \in DOMAIN props[call.c]) # (k \in ChildKeys(call.c))

(* C2: once the constructor has returned, and after every later call that  *)
(* emitted render and returned, getContent() is an element, never null.    *)
C2_ContentNeverNull ==
  (Idle /\ err = "none" /\ call.op \in {"new", "setProps", "set", "dispatch"}
     /\ Emits(FLOW_RENDER) # {})
    => element[call.c] # Null

(* C3: a setProps call whose comparison hook answered false for every key  *)
(* leaves the rendered node in place; one whose hook answered true         *)
(* replaces it.                                                            *)
C3_HookGatesSetProps ==
  (Returned("setProps") /\ call.given /\ Len(call.arg) >= 1
     /\ cls[call.c].roots = 1 /\ pre.element # Null)
    => /\ (\A i \in Hooks("componentDidUpdate") : ~trace[i].res)
            => element[call.c] = pre.element
       /\ (\E i \in Hooks("componentDidUpdate") : trace[i].res)
            => element[call.c] # pre.element

(* C4: one setProps(partial) with k >= 1 keys emits updated once.          *)
C4_UpdatedOncePerCall ==
  (Returned("setProps") /\ call.given /\ Len(call.arg) >= 1)
    => Cardinality(Emits(FLOW_CDU)) = 1

(* C5: deleting a key through the props proxy fails with an error, and     *)
(* leaves the store, the rendered node and the DOM as they were, with no   *)
(* lifecycle event emitted.                                                *)
C5_DeleteRejected ==
  call.op = "delete" =>
    /\ Idle /\ err = "Error"
    /\ props[call.c] = pre.props
    /\ element[call.c] = pre.element
    /\ dom = pre.dom
    /\ \A i \in 1..Len(trace) : trace[i].e # "emit"

C5_Witness ==
  /\ call.op = "delete" /\ Idle
  /\ call.arg[1] \in DOMAIN pre.props
  /\ element[call.c] # Null

(* C6: when setProps(partial) returns, the store holds every key of        *)
(* partial, the last render pass ran after the last write and from the     *)
(* store as it is now, its node is the current one, it shows the final     *)
(* props, and the listeners on it are those of props.events.               *)
C6_RenderedFromFinalProps ==
  (Returned("setProps") /\ call.given) =>
    LET c == call.c
    IN /\ \A i \in 1..Len(call.arg) :
            /\ call.arg[i][1] \in DOMAIN props[c]
            /\ props[c][call.arg[i][1]] = call.arg[i][2]
       /\ Renders # {}
       /\ \A i \in 1..Len(trace) : trace[i].e = "set" => i < Last(Renders)
       /\ trace[Last(Renders)].from = props[c]
       /\ trace[Last(Renders)].new = element[c]
       /\ element[c] # Null =>
            /\ dom[element[c]].on = EventsOf(props[c])
            /\ children[c] = <<>> =>
                 dom[element[c]].kids = Interpolate(cls[c].slots, ContextOf(props[c]), 1)

C6_Witness ==
  /\ Returned("setProps") /\ call.given /\ Len(call.arg) = 2
  /\ element[call.c] # Null
  /\ "label" \in DOMAIN pre.props /\ "label" \in DOMAIN props[call.c]
  /\ props[call.c]["label"] # pre.props["label"]
  /\ EventsOf(pre.props) # {} /\ EventsOf(props[call.c]) # {}

NodesOf(v) ==
  IF IsArray(v) THEN [i \in 1..Len(v.items) |-> Node(element[v.items[i].id])]
  ELSE <<Node(element[v.id])>>

ChildAt(c, k) == (CHOOSE i \in 1..Len(children[c]) : children[c][i][1] = k)

RECURSIVE ExpectedKids(_, _)
ExpectedKids(c, i) ==
  IF i > Len(cls[c].slots) THEN <<>>
  ELSE (IF cls[c].slots[i] \in ChildKeys(c)
          THEN NodesOf(children[c][ChildAt(c, cls[c].slots[i])][2])
          ELSE <<>>) \o ExpectedKids(c, i + 1)

IsParentOfBlocks(c) ==
  /\ c \in Held /\ children[c] # <<>>
  /\ ChildKeys(c) \subseteq Range(cls[c].slots)
  /\ \A i \in 1..Len(children[c]) :
       LET v == children[c][i][2]
       IN IsArray(v) => \A j \in 1..Len(v.items) : IsBlock(v.items[j])

(* C7: a parent whose template writes every child key shows, after a       *)
(* render pass, each child's current node in place of its placeholder: the *)
(* nodes of a sequence in sequence order at the key's place, the single    *)
(* children at theirs, one replacement per child and no placeholder left.  *)
C7_ChildrenInPlace ==
  \A c \in Ids :
    (Idle /\ IsParentOfBlocks(c)) =>
      /\ dom[element[c]].kids = ExpectedKids(c, 1)
      /\ \A i \in 1..Len(dom[element[c]].kids) : dom[element[c]].kids[i].t # "stub"
      /\ (call.c = c /\ Renders # {}) =>
           trace[Last(Renders)].done = Len(ExpectedKids(c, 1))

C7_Witness ==
  /\ Returned("dispatch") /\ IsParentOfBlocks(call.c)
  /\ Len(children[call.c]) = 2
  /\ children[call.c][1][1] = "item"
  /\ LET items == children[call.c][1][2].items
     IN /\ Len(items) = 2
        /\ items[1].id > items[2].id
        /\ element[items[1].id].g = 2

MountShape == <<FLOW_CDM, "componentDidMount", FLOW_RENDER, "render">>

(* C8: a dispatchComponentDidMount call emits mounted once, runs the       *)
(* componentDidMount hook, then emits render, and exactly one render pass  *)
(* follows, after the hook.                                                *)
C8_MountRendersOnce ==
  call.op = "dispatch" =>
    /\ IsPrefix(TraceShape, MountShape \o <<"throw">>)
    /\ Idle => Len(trace) >= Len(MountShape)

C8_Witness ==
  /\ Returned("dispatch")
  /\ pre.element # Null
  /\ element[call.c] \notin {Null, pre.element}

(* C9: a render hook whose fragment has no root element, or more than one, *)
(* makes the render pass fail with an error that reaches the caller.       *)
C9_MalformedRenderSurfaced ==
  (Idle /\ \E i \in Renders : trace[i].ok /\ trace[i].roots # 1)
    => err # "none"

ConstructShape == <<"partition", "register", INIT, "init", FLOW_RENDER, "render">>

(* C10: the constructor partitions the bag and registers the four          *)
(* handlers, then emits init, the init hook runs, render is emitted and    *)
(* one render pass runs, all before the constructor returns.               *)
C10_ConstructionOrder ==
  call.op = "new" =>
    /\ IsPrefix(TraceShape, ConstructShape \o <<"throw">>)
    /\ Idle => Len(trace) >= Len(ConstructShape)
    /\ \A event \in {INIT, FLOW_CDM, FLOW_CDU, FLOW_RENDER} :
         Len(Listeners(eventBus[call.c], event)) = 1

C10_Witness ==
  /\ Returned("new")
  /\ element[call.c] # Null
  /\ DOMAIN props[call.c] # {}

(* C11: one write through the props proxy emits updated once, and render  *)
(* is emitted after it exactly when the comparison hook returned true.     *)
(* When the hook returned false the store holds the new value and the      *)
(* rendered node and the DOM are those of before the write.  With the      *)
(* default hook every write is followed by one render pass, also a write   *)
(* of the value the store already held.                                    *)
C11_WriteRendersIffHookTrue ==
  (Idle /\ call.op = "set") =>
    LET c == call.c
        k == call.arg[1][1]
        H == Hooks("componentDidUpdate")
    IN /\ Cardinality(Emits(FLOW_CDU)) = 1
       /\ Cardinality(H) = 1
       /\ \A i \in H :
            /\ trace[i].res <=> Emits(FLOW_RENDER) # {}
            /\ trace[i].res => Cardinality(Renders) = 1
            /\ ~trace[i].res =>
                 /\ Renders = {} /\ err = "none"
                 /\ k \in DOMAIN props[c] /\ props[c][k] = call.arg[1][2]
                 /\ element[c] = pre.element
                 /\ dom = pre.dom
       /\ cls[c].cdu = "default" => Cardinality(Renders) = 1

C11_Witness ==
  /\ Returned("set")
  /\ \E i \in Hooks("componentDidUpdate") : ~trace[i].res
  /\ element[call.c] # Null
  /\ EventsOf(props[call.c]) # {}

\* the store before the i-th entry of the trace, a write, was made
StoreBefore(i) ==
  LET E == {j \in Emits(FLOW_CDU) : j < i}
  IN IF E = {} THEN pre.props ELSE trace[Last(E)].args[2].val

(* C12: the updated event of a write of v at k carries (oldProps,          *)
(* newProps): oldProps is a copy of the store as it was before the write   *)
(* (the previous value at k, or no k), newProps holds v at k, and the two  *)
(* agree on every other key.                                               *)
C12_UpdatedCarriesSnapshots ==
  \A i \in Emits(FLOW_CDU) :
    LET old == trace[i].args[1]
        new == trace[i].args[2]
        k == trace[i - 1].k
        was == StoreBefore(i - 1)
    IN /\ trace[i - 1].e = "set"
       /\ old.obj = "copy" /\ new.obj = "store"
       /\ old.val = was
       /\ k \in DOMAIN new.val /\ new.val[k] = trace[i - 1].v
       /\ DOMAIN new.val = DOMAIN old.val \cup {k}
       /\ \A x \in DOMAIN old.val \ {k} : new.val[x] = old.val[x]

C12_Witness ==
  /\ Returned("setProps") /\ Len(call.arg) = 2
  /\ call.arg[1][1] \in DOMAIN pre.props
  /\ pre.props[call.arg[1][1]] # call.arg[1][2]
  /\ call.arg[2][1] \notin DOMAIN pre.props
  /\ Cardinality(Emits(FLOW_CDU)) = 2

(* C13: when a render pass replaces a previous node, no listener that was  *)
(* attached to that node from props.events is still on it.  The code       *)
(* removes the listeners of the events mapping of now, not of then.        *)
C13_OldListenersDetached ==
  \A i \in Renders :
    (trace[i].ok /\ trace[i].old # Null) => trace[i].left = {}

(* C17: no emit fails with UnknownEvent: every instance has exactly one    *)
(* handler for each of init, mounted, updated and render, from before the  *)
(* first emit of its constructor on.                                       *)
C17_EveryEmitHasItsHandler ==
  /\ err # "UnknownEvent"
  /\ \A c \in Ids :
       /\ Listeners(eventBus[c], INIT) = <<"_init">>
       /\ Listeners(eventBus[c], FLOW_CDM) = <<"_componentDidMount">>
       /\ Listeners(eventBus[c], FLOW_CDU) = <<"_componentDidUpdate">>
       /\ Listeners(eventBus[c], FLOW_RENDER) = <<"_render">>
  /\ At("emit") => Len(Listeners(eventBus[Top.c], Top.ev)) = 1

C17_Witness ==
  /\ Returned("setProps")
  /\ Emits(FLOW_CDU) # {} /\ Emits(FLOW_RENDER) # {}

(* C14: the props store never holds a Block or a sequence of Blocks, and   *)
(* no key is in both props and children.  setProps and the set trap store  *)
(* what they are given, with no partition.                                 *)
C14_PropsHoldNoBlocks ==
  \A c \in Ids :
    /\ \A k \in DOMAIN props[c] :
         /\ ~IsBlock(props[c][k])
         /\ IsArray(props[c][k]) =>
              ~\E i \in 1..Len(props[c][k].items) : IsBlock(props[c][k].items[i])
    /\ DOMAIN props[c] \cap ChildKeys(c) = {}

(* C15: every value in children is a Block or a sequence of Blocks only.   *)
(* The partition files an array under children as it is when any of its    *)
(* elements is a Block.                                                    *)
C15_ChildrenAreBlocks ==
  \A c \in Ids : \A i \in 1..Len(children[c]) :
    LET value == children[c][i][2]
    IN \/ IsBlock(value)
       \/ /\ IsArray(value)
          /\ \A j \in 1..Len(value.items) : IsBlock(value.items[j])

\* a parent of Blocks whose template leaves out the key of some child
LacksAPlaceholder(c) ==
  /\ children[c] # <<>>
  /\ ~(ChildKeys(c) \subseteq Range(cls[c].slots))
  /\ \A i \in 1..Len(children[c]) :
       LET v == children[c][i][2]
       IN IsArray(v) => \A j \in 1..Len(v.items) : IsBlock(v.items[j])

Begins == {i \in 1..Len(trace) : trace[i].e = "begin"}

(* C18: a write made by the render hook, the comparison hook answering     *)
(* true, starts a nested render pass that is complete when the outer pass  *)
(* resumes; the outer pass then installs its own node over the nested      *)
(* one, and that node is the rendered node when the call returns.  With a  *)
(* render hook that writes in every pass the call that started it never    *)
(* returns.                                                                *)
C18_NestedPassThenOuter ==
  /\ \A b \in Begins :
       (RenderWrites(cls[trace[b].c]) = "fix" /\ Len(trace) >= b + 6) =>
         /\ trace[b + 1].e = "set"
         /\ trace[b + 2].e = "emit" /\ trace[b + 2].ev = FLOW_CDU
         /\ trace[b + 3].e = "hook" /\ trace[b + 3].res
         /\ trace[b + 4].e = "emit" /\ trace[b + 4].ev = FLOW_RENDER
         /\ trace[b + 5].e = "render" /\ trace[b + 5].ok
         /\ trace[b + 6].e = "render" /\ trace[b + 6].ok
         /\ trace[b + 6].old = trace[b + 5].new
         /\ trace[b + 6].new # trace[b + 5].new
         /\ trace[b + 6].from = trace[b + 5].from
  /\ At("resume") =>
       /\ trace[Len(trace)].e = "render" /\ trace[Len(trace)].ok
       /\ element[Top.c] = trace[Len(trace)].new
       /\ Len(trace) = Last(Begins) + 5
  /\ (Idle /\ err = "none" /\ Begins # {}) =>
       /\ element[call.c] = trace[Last(Renders)].new
       /\ element[call.c] \in DOMAIN dom
       /\ \A b \in Begins :
            /\ Last(Renders) >= b + 6
            /\ trace[b + 5].new # element[call.c]
            /\ trace[b + 5].new \notin DOMAIN dom
  /\ \A c \in Ids :
       RenderWrites(cls[c]) = "always" =>
         /\ ~(Idle /\ call.c = c /\ err = "none")
         /\ Idle => (c \in lost /\ err = "RangeError")

C18_Witness ==
  /\ Returned("set") /\ Cardinality(Begins) = 1
  /\ Cardinality(Renders) = 2
  /\ pre.element # Null
  /\ element[call.c] = trace[Last(Renders)].new

\* the constructor of an instance whose render hook writes in every pass
\* has run out of call stack
C18_WitnessLoop ==
  /\ Idle /\ call.op = "new" /\ err = "RangeError"
  /\ Cardinality(Begins) = MaxDepth

====
